---- MODULE Spec2Model ----
(***************************************************************************)
(* A model of bloom/bloom.py: the BloomFilter class.                       *)
(*                                                                         *)
(* One filter instance is constructed (New), then used through add,        *)
(* __contains__ and _clear.  The bit memory is the Python big integer      *)
(* self._memory, kept as a natural number; "1 << idx" and "|" are the      *)
(* arithmetic operators Shl and BitOr below.  mmh3.hash64 is a library     *)
(* function: it is a fixed but arbitrary function from keys to pairs of    *)
(* signed integers, chosen in Init and never changed.                      *)
(***************************************************************************)
EXTENDS Integers, Sequences, FiniteSets, TLC

VARIABLES status, ctor, assigned, n, fp_rate, k, m, memory, hash64, added, op,
          threads, lock, raced, gen

vars ==
    <<status, ctor, assigned, n, fp_rate, k, m, memory, hash64, added, op,
      threads, lock, raced, gen>>

\* The state of concurrent callers and of a returned index generator.
aux == <<threads, lock, raced, gen>>

params == <<n, fp_rate, k, m>>

(***************************************************************************)
(* Bounds of the model.                                                    *)
(***************************************************************************)
\* Largest capacity n passed to the constructor.
MaxN == 2

\* The hash half h1 ranges over -MaxHash .. MaxHash, the stride h2 over
\* -MaxHash, 0 and MaxHash.
MaxHash == 1

(***************************************************************************)
(* Python values.                                                          *)
(***************************************************************************)
\* An element passed to add / __contains__: a Python value with its type.
IntElem(v) == [type |-> "int", int |-> v, str |-> ""]

StrElem(s) == [type |-> "str", int |-> 0, str |-> s]

NoneElem == [type |-> "NoneType", int |-> 0, str |-> ""]

\* isinstance(value, type)
IsInstance(v, t) == v.type = t

\* A binary float sig * 2^exp.
Float(sig, exp) == [type |-> "float", sig |-> sig, exp |-> exp]

\* 0 < x for a float x
FloatPositive(x) == x.sig > 0

\* sig < 2^e for integers sig and e, without expanding 2^e
RECURSIVE BelowPowerOfTwo(_, _)
BelowPowerOfTwo(sig, e) ==
    IF sig <= 0 THEN TRUE
    ELSE IF e <= 0 THEN FALSE
    ELSE BelowPowerOfTwo(sig \div 2, e - 1)

\* x < 1 for a float x = sig * 2^exp
FloatBelowOne(x) == BelowPowerOfTwo(x.sig, -x.exp)

(***************************************************************************)
(* Inputs.                                                                 *)
(***************************************************************************)
\* Values passed as n: integers around zero, the float 2.0 and the str "2".
NArgs ==
    [type : {"int"}, int : -1 .. MaxN]
        \cup {[type |-> "float", int |-> 2], [type |-> "str", int |-> 2]}

\* Values passed as fp_rate: 0.0, 0.125, 0.25, 0.75, 1.0, 1.5, -0.5, the
\* smallest subnormal 2^-1074 (5e-324), the int 1 and a str.
FpArgs ==
    { Float(0, 0), Float(1, -3), Float(1, -2), Float(3, -2),
      Float(1, 0), Float(3, -1), Float(-1, -1), Float(1, -1074),
      [type |-> "int", sig |-> 1, exp |-> 0],
      [type |-> "str", sig |-> 1, exp |-> -1] }

\* Elements passed to add and __contains__: the int 5, the str "0b101" (the
\* text bin(5) renders), the str "a", and None, which mmh3 cannot hash.
Elements == {IntElem(5), StrElem("0b101"), StrElem("a"), NoneElem}

\* The types mmh3.hash64 accepts once ints have been rendered by bin().
Hashable(e) == e.type \in {"int", "str"}

(***************************************************************************)
(* bin(): the binary literal of an integer, sign first, then "0b".         *)
(***************************************************************************)
RECURSIVE BinDigits(_)
BinDigits(v) ==
    IF v < 2 THEN ToString(v) ELSE BinDigits(v \div 2) \o ToString(v % 2)

\* The binary digits without the "0b" prefix, as format(v, "b") renders them.
BinNoPrefix(v) == IF v < 0 THEN "-" \o BinDigits(-v) ELSE BinDigits(v)

Bin(v) == IF v < 0 THEN "-0b" \o BinDigits(-v) ELSE "0b" \o BinDigits(v)

\* The value handed to mmh3.hash64: ints are replaced by bin(element).
KeyOf(e) == IF IsInstance(e, "int") THEN Bin(e.int) ELSE e.str

Keys == {KeyOf(e) : e \in {x \in Elements : Hashable(x)}}

\* The values of h1 and of h2, signed as mmh3.hash64 returns them.
HashHalves == -MaxHash .. MaxHash

HashStrides == {-MaxHash, 0, MaxHash}

(***************************************************************************)
(* Big-integer bit operations.                                             *)
(***************************************************************************)
\* x << s
Shl(x, s) == x * 2 ^ s

\* a | b on non-negative integers
RECURSIVE BitOr(_, _)
BitOr(a, b) ==
    IF a = 0 THEN b
    ELSE IF b = 0 THEN a
    ELSE (IF a % 2 = 1 \/ b % 2 = 1 THEN 1 ELSE 0)
            + 2 * BitOr(a \div 2, b \div 2)

\* Bit number idx of mem.
TestBit(mem, idx) == (mem \div 2 ^ idx) % 2 = 1

(***************************************************************************)
(* _check_args                                                             *)
(***************************************************************************)
NValid(nArg) == IsInstance(nArg, "int") /\ ~(nArg.int <= 0)

FpValid(fpArg) ==
    IsInstance(fpArg, "float") /\ FloatPositive(fpArg) /\ FloatBelowOne(fpArg)

\* "ok" when _check_args returns, "ValueError" when it raises.
CheckArgs(nArg, fpArg) ==
    IF ~NValid(nArg) THEN "ValueError"
    ELSE IF ~FpValid(fpArg) THEN "ValueError"
    ELSE "ok"

(***************************************************************************)
(* _calculate_sizes, in fixed point: a real r is the integer r * Scale.    *)
(***************************************************************************)
Scale == 10 ^ 3

\* math.log(math.exp(1), 2) = 1.4426950408889634
Log2E == 1443

\* math.log(3, 2) = 1.584962500721156
Log2Of3 == 1585

\* A double holds magnitudes below 2^1024; 1.0 / x beyond that is inf.
FloatMaxExp == 1024

\* 1.0 / x is inf: x = sig * 2^exp with sig in {1, 3}.
RecipOverflows(x) == -x.exp - (IF x.sig >= 2 THEN 1 ELSE 0) >= FloatMaxExp

\* math.log(1.0 / x, 2) * Scale for a valid x = sig * 2^exp, sig in {1, 3}.
Log2Recip(x) == (-x.exp) * Scale - (IF x.sig = 3 THEN Log2Of3 ELSE 0)

\* math.ceil(a / b) for b > 0
CeilDiv(a, b) == -((-a) \div b)

\* self._k
CalculateK(fp) == CeilDiv(Log2Recip(fp), Scale)

\* self._m
CalculateM(nn, fp, kk) ==
    CeilDiv(nn * Log2Recip(fp) * Log2E, kk * Scale * Scale)

\* "ok", or the exception int(math.ceil(inf)) raises.
CalculateSizes(fp) == IF RecipOverflows(fp) THEN "OverflowError" ELSE "ok"

(***************************************************************************)
(* _hash_element                                                           *)
(***************************************************************************)
\* The remainder of a division that truncates toward zero (C, Java): it is
\* negative for a < 0.
TruncMod(a, b) == IF a >= 0 THEN a % b ELSE -((-a) % b)

\* Python's a % b for b > 0: the result is in 0 .. b-1 also for a < 0.
PyMod(a, b) == a % b

\* mmh3.hash64(key): the pair <<h1, h2>>.
Hash64(key) == hash64[key]

\* Indices that count the partitions from 1 (i + 1 for i): the last one
\* lies beyond the k*m bits.
HashElementNextPartition(e) ==
    LET h == hash64[KeyOf(e)]
    IN  [j \in 1 .. k |-> ((h[1] + (j - 1) * h[2]) % m) + j * m]

\* The k indices of a hashable element, in order (range(k) is 0 .. k-1).
HashElement(e) ==
    LET h == Hash64(KeyOf(e))
    IN  [j \in 1 .. k |-> PyMod(h[1] + (j - 1) * h[2], m) + (j - 1) * m]

(***************************************************************************)
(* add and __contains__ as functions of the memory.                        *)
(***************************************************************************)
\* A loop of add that stops one index early (range(k - 1)).
RECURSIVE AddLoopSkipLast(_, _, _)
AddLoopSkipLast(mem, indices, j) ==
    IF j >= Len(indices) THEN mem
    ELSE AddLoopSkipLast(mem + (IF (mem \div 2 ^ indices[j]) % 2 = 1
                                THEN 0 ELSE 2 ^ indices[j]),
                         indices, j + 1)

\* A loop of add that assigns the bit instead of or-ing it in ("=" for "|=").
RECURSIVE AddLoopOverwrite(_, _, _)
AddLoopOverwrite(mem, indices, j) ==
    IF j > Len(indices) THEN mem
    ELSE AddLoopOverwrite(2 ^ indices[j], indices, j + 1)

\* A loop of add that flips the bit ("^=" for "|=").
RECURSIVE AddLoopToggle(_, _, _)
AddLoopToggle(mem, indices, j) ==
    IF j > Len(indices) THEN mem
    ELSE AddLoopToggle(IF (mem \div 2 ^ indices[j]) % 2 = 1
                       THEN mem - 2 ^ indices[j] ELSE mem + 2 ^ indices[j],
                       indices, j + 1)

\* The loop of add: memory after "self._memory |= 1 << idx" for the indices
\* from position j on.
RECURSIVE AddLoop(_, _, _)
AddLoop(mem, indices, j) ==
    IF j > Len(indices) THEN mem
    ELSE AddLoop(BitOr(mem, Shl(1, indices[j])), indices, j + 1)

\* An add whose error path resets the memory.
AddMemoryClearsOnError(mem, e) ==
    IF ~Hashable(e) THEN 0 ELSE AddLoop(mem, HashElement(e), 1)

\* The memory add(e) leaves: unchanged when hashing raises.
AddMemory(mem, e) ==
    IF ~Hashable(e) THEN mem ELSE AddLoop(mem, HashElement(e), 1)

\* any(...) in place of all(...): true as soon as one bit is set.
RECURSIVE ContainsLoopAny(_, _, _)
ContainsLoopAny(mem, indices, j) ==
    IF j > Len(indices) THEN FALSE
    ELSE IF (mem \div 2 ^ indices[j]) % 2 = 1 THEN TRUE
    ELSE ContainsLoopAny(mem, indices, j + 1)

\* all(...) over the generator: stops at the first index whose bit is unset.
RECURSIVE ContainsLoop(_, _, _)
ContainsLoop(mem, indices, j) ==
    IF j > Len(indices) THEN TRUE
    ELSE IF BitOr(mem, Shl(1, indices[j])) # mem THEN FALSE
    ELSE ContainsLoop(mem, indices, j + 1)

\* element in filter, for a hashable element
ContainsResult(mem, e) == ContainsLoop(mem, HashElement(e), 1)

(***************************************************************************)
(* The state machine.                                                      *)
(***************************************************************************)
NoElem == [type |-> "", int |-> 0, str |-> ""]

\* The constructor's arguments before the constructor has been called.
NoArgs ==
    [n |-> [type |-> "", int |-> 0], fp |-> [type |-> "", sig |-> 0, exp |-> 0]]

Call(name, arg, ret, again) ==
    [name |-> name, arg |-> arg, ret |-> ret, again |-> again]

BoolStr(b) == IF b THEN "True" ELSE "False"

\* The threads that call into the one filter.
Threads == {"T1", "T2"}

\* A thread that is in no call of the filter.  In a call: pc is where the
\* call stands, j the position in the index sequence, local the value of
\* self._memory the thread has loaded, was whether the element had been
\* added when the call began.
Idle ==
    [pc |-> "idle", call |-> "", elem |-> NoElem, j |-> 0, local |-> 0,
     was |-> FALSE]

\* No index generator has been returned yet.  Otherwise: elem is the element
\* it was made for, pos the number of indices it has yielded, pass the
\* number of times it was iterated (2 for two or more), items what the last
\* iteration yielded.
NoGenerator == [elem |-> NoElem, pos |-> 0, from |-> 0, pass |-> 0, items |-> <<>>]

Init ==
    /\ status = "none"
    /\ ctor = NoArgs
    /\ assigned = {}
    /\ n = 0
    /\ fp_rate = Float(0, 0)
    /\ k = 0
    /\ m = 0
    /\ memory = 0
    /\ hash64 \in [Keys -> HashHalves \X HashStrides]
    /\ added = {}
    /\ op = Call("", NoElem, "", FALSE)
    /\ threads = [t \in Threads |-> Idle]
    /\ lock = "free"
    /\ raced = FALSE
    /\ gen = NoGenerator

\* An __init__ that stores n and fp_rate before it checks them.
NewAssignsFirst(nArg, fpArg) ==
    /\ status = "none"
    /\ ctor' = [n |-> nArg, fp |-> fpArg]
    /\ assigned' =
          IF CheckArgs(nArg, fpArg) = "ok" /\ CalculateSizes(fpArg) = "ok"
          THEN {"n", "fp_rate", "k", "m", "memory"}
          ELSE {"n", "fp_rate"}
    /\ n' = nArg.int
    /\ fp_rate' = fpArg
    /\ LET checked == CheckArgs(nArg, fpArg)
           sized == CalculateSizes(fpArg)
       IN  IF checked # "ok"
           THEN /\ status' = checked
                /\ op' = Call("new", NoElem, checked, FALSE)
                /\ UNCHANGED <<k, m, memory>>
           ELSE IF sized # "ok"
           THEN /\ status' = sized
                /\ op' = Call("new", NoElem, sized, FALSE)
                /\ UNCHANGED <<k, m, memory>>
           ELSE /\ status' = "live"
                /\ op' = Call("new", NoElem, "None", FALSE)
                /\ k' = CalculateK(fpArg)
                /\ m' = CalculateM(nArg.int, fpArg, CalculateK(fpArg))
                /\ memory' = 0
    /\ UNCHANGED <<hash64, added>>
    /\ UNCHANGED aux

\* BloomFilter(n, fp_rate): __init__
New(nArg, fpArg) ==
    /\ status = "none"
    /\ ctor' = [n |-> nArg, fp |-> fpArg]
    /\ LET checked == CheckArgs(nArg, fpArg)
           sized == CalculateSizes(fpArg)
       IN  IF checked # "ok"
           THEN /\ status' = checked
                /\ op' = Call("new", NoElem, checked, FALSE)
                /\ UNCHANGED <<assigned, n, fp_rate, k, m, memory>>
           ELSE IF sized # "ok"
           THEN /\ status' = sized
                /\ op' = Call("new", NoElem, sized, FALSE)
                /\ assigned' = {"n", "fp_rate"}
                /\ n' = nArg.int
                /\ fp_rate' = fpArg
                /\ UNCHANGED <<k, m, memory>>
           ELSE /\ status' = "live"
                /\ op' = Call("new", NoElem, "None", FALSE)
                /\ assigned' = {"n", "fp_rate", "k", "m", "memory"}
                /\ n' = nArg.int
                /\ fp_rate' = fpArg
                /\ k' = CalculateK(fpArg)
                /\ m' = CalculateM(nArg.int, fpArg, CalculateK(fpArg))
                /\ memory' = 0
    /\ UNCHANGED <<hash64, added>>
    /\ UNCHANGED aux

\* filter.add(e)
Add(e) ==
    /\ status = "live"
    /\ memory' = AddMemory(memory, e)
    /\ IF Hashable(e)
       THEN /\ added' = added \cup {e}
            /\ op' = Call("add", e, "None", e \in added)
       ELSE /\ added' = added
            /\ op' = Call("add", e, "TypeError", FALSE)
    /\ UNCHANGED <<status, ctor, assigned, n, fp_rate, k, m, hash64>>
    /\ UNCHANGED aux

\* A __contains__ that or-s the tested bits into the memory ("|=" for "|").
ContainsSetsBits(e) ==
    /\ status = "live"
    /\ memory' = AddMemory(memory, e)
    /\ op' = Call("contains", e,
                  IF Hashable(e) THEN BoolStr(ContainsResult(memory, e))
                  ELSE "TypeError", FALSE)
    /\ UNCHANGED <<status, ctor, assigned, n, fp_rate, k, m, hash64, added>>
    /\ UNCHANGED aux

\* e in filter: __contains__
Contains(e) ==
    /\ status = "live"
    /\ op' = Call("contains", e,
                  IF Hashable(e) THEN BoolStr(ContainsResult(memory, e))
                  ELSE "TypeError", FALSE)
    /\ UNCHANGED <<status, ctor, assigned, n, fp_rate, k, m, memory, hash64, added>>
    /\ UNCHANGED aux

\* A _clear that forgets to zero the memory.
ClearKeepsBits ==
    /\ status = "live"
    /\ memory' = memory
    /\ added' = {}
    /\ op' = Call("clear", NoElem, "None", FALSE)
    /\ UNCHANGED <<status, ctor, assigned, n, fp_rate, k, m, hash64>>
    /\ UNCHANGED aux

\* A _clear that also drops the sizes.
ClearResetsSizes ==
    /\ status = "live"
    /\ memory' = 0
    /\ k' = 0
    /\ m' = 0
    /\ added' = {}
    /\ op' = Call("clear", NoElem, "None", FALSE)
    /\ UNCHANGED <<status, ctor, assigned, n, fp_rate, hash64>>
    /\ UNCHANGED aux

\* filter._clear()
Clear ==
    /\ status = "live"
    /\ memory' = 0
    /\ added' = {}
    /\ op' = Call("clear", NoElem, "None", FALSE)
    /\ UNCHANGED <<status, ctor, assigned, n, fp_rate, k, m, hash64>>
    /\ UNCHANGED aux

Next ==
    \/ \E nArg \in NArgs, fpArg \in FpArgs : New(nArg, fpArg)
    \/ \E e \in Elements : Add(e)
    \/ \E e \in Elements : Contains(e)
    \/ Clear

Spec == Init /\ [][Next]_vars

(***************************************************************************)
(* Several threads calling into one filter.  A thread switch can fall      *)
(* between any two reads or writes of self._memory, so each call is a      *)
(* sequence of steps: add loads self._memory, or-s the bit in and stores   *)
(* the result, index by index; __contains__ loads self._memory once per    *)
(* index; _clear is one store.  With locked = TRUE the callers keep the     *)
(* single-writer/multiple-reader discipline: add and _clear run with the   *)
(* lock held and no __contains__ under way, __contains__ runs while no     *)
(* thread holds the lock, together with other __contains__ calls.          *)
(***************************************************************************)
\* The elements the threads add and test.
ThreadElements == {IntElem(5), StrElem("a")}

\* The element a thread adds when each thread adds an element of its own.
OwnElement(t) == IF t = "T1" THEN IntElem(5) ELSE StrElem("a")

AllIdle == \A t \in Threads : threads[t].pc = "idle"

\* A store of the bit alone ("=" for "|=").
StoreValueOverwrite(local, idx) == 2 ^ idx

\* The value add stores for one index: the loaded memory | (1 << idx)
StoreValue(local, idx) == BitOr(local, Shl(1, idx))

\* The test __contains__ makes for one index: (memory | (1 << idx)) == memory
BitPresent(mem, idx) == BitOr(mem, Shl(1, idx)) = mem

\* Callers that begin add or _clear without looking at the lock.
MayWriteNoLock(t, locked) ==
    /\ status = "live"
    /\ threads[t].pc = "idle"

\* A caller may begin add or _clear: under the discipline only when no
\* thread writes and none reads.
MayWrite(t, locked) ==
    /\ status = "live"
    /\ threads[t].pc = "idle"
    /\ locked => /\ lock = "free"
                 /\ \A u \in Threads : threads[u].pc # "test"

\* A caller may begin __contains__: under the discipline only when no thread
\* writes.
MayRead(t, locked) ==
    /\ status = "live"
    /\ threads[t].pc = "idle"
    /\ locked => lock = "free"

LockAfterEnter(t, locked) == IF locked THEN t ELSE lock

LockAfterReturn(t) == IF lock = t THEN "free" ELSE lock

\* The index the call of thread t stands at.
CurrentIndex(t) == HashElement(threads[t].elem)[threads[t].j]

\* Thread t calls add(e): _hash_element has run, the loop is at index 0.
ThreadAddCall(t, e, locked) ==
    /\ MayWrite(t, locked)
    /\ threads' = [threads EXCEPT ![t] =
                     [pc |-> "load", call |-> "add", elem |-> e, j |-> 1,
                      local |-> 0, was |-> e \in added]]
    /\ lock' = LockAfterEnter(t, locked)
    /\ UNCHANGED <<status, ctor, assigned, n, fp_rate, k, m, memory, hash64,
                   added, op, raced, gen>>

\* Thread t loads self._memory for "self._memory |= 1 << idx".
ThreadAddLoad(t) ==
    /\ threads[t].pc = "load"
    /\ threads' = [threads EXCEPT ![t].local = memory, ![t].pc = "store"]
    /\ UNCHANGED <<status, ctor, assigned, n, fp_rate, k, m, memory, hash64,
                   added, op, lock, raced, gen>>

\* Thread t stores the or-ed value; after the last index add returns.
ThreadAddStore(t) ==
    /\ threads[t].pc = "store"
    /\ memory' = StoreValue(threads[t].local, CurrentIndex(t))
    /\ raced' = (raced \/ memory # threads[t].local)
    /\ IF threads[t].j < k
       THEN /\ threads' = [threads EXCEPT ![t].j = @ + 1, ![t].pc = "load"]
            /\ UNCHANGED <<added, op, lock>>
       ELSE /\ threads' = [threads EXCEPT ![t] = Idle]
            /\ added' = added \cup {threads[t].elem}
            /\ op' = Call("add", threads[t].elem, "None", threads[t].was)
            /\ lock' = LockAfterReturn(t)
    /\ UNCHANGED <<status, ctor, assigned, n, fp_rate, k, m, hash64, gen>>

\* Thread t calls e in filter: the generator is at index 0.
ThreadContainsCall(t, e, locked) ==
    /\ MayRead(t, locked)
    /\ threads' = [threads EXCEPT ![t] =
                     [pc |-> "test", call |-> "contains", elem |-> e, j |-> 1,
                      local |-> 0, was |-> e \in added]]
    /\ UNCHANGED <<status, ctor, assigned, n, fp_rate, k, m, memory, hash64,
                   added, op, lock, raced, gen>>

\* Thread t tests one index: all() returns False at the first unset bit and
\* True after the last index.
ThreadContainsTest(t) ==
    /\ threads[t].pc = "test"
    /\ IF BitPresent(memory, CurrentIndex(t)) /\ threads[t].j < k
       THEN /\ threads' = [threads EXCEPT ![t].j = @ + 1]
            /\ op' = op
       ELSE /\ threads' = [threads EXCEPT ![t] = Idle]
            /\ op' = Call("contains", threads[t].elem,
                          BoolStr(BitPresent(memory, CurrentIndex(t))),
                          threads[t].was)
    /\ UNCHANGED <<status, ctor, assigned, n, fp_rate, k, m, memory, hash64,
                   added, lock, raced, gen>>

\* Thread t calls _clear(): one store of 0.
ThreadClear(t, locked) ==
    /\ MayWrite(t, locked)
    /\ memory' = 0
    /\ added' = {}
    /\ op' = Call("clear", NoElem, "None", FALSE)
    /\ UNCHANGED <<status, ctor, assigned, n, fp_rate, k, m, hash64, threads,
                   lock, raced, gen>>

\* Two threads that each add an element of their own once, with no lock;
\* when both are done an element is tested.
NextRace ==
    \/ \E nArg \in NArgs, fpArg \in FpArgs : New(nArg, fpArg)
    \/ \E t \in Threads :
          OwnElement(t) \notin added /\ ThreadAddCall(t, OwnElement(t), FALSE)
    \/ \E t \in Threads : ThreadAddLoad(t)
    \/ \E t \in Threads : ThreadAddStore(t)
    \/ \E e \in ThreadElements : AllIdle /\ Contains(e)

SpecRace == Init /\ [][NextRace]_vars

\* Threads that keep the single-writer/multiple-reader discipline.
NextLocked ==
    \/ \E nArg \in NArgs, fpArg \in FpArgs : New(nArg, fpArg)
    \/ \E t \in Threads, e \in ThreadElements : ThreadAddCall(t, e, TRUE)
    \/ \E t \in Threads : ThreadAddLoad(t)
    \/ \E t \in Threads : ThreadAddStore(t)
    \/ \E t \in Threads, e \in ThreadElements : ThreadContainsCall(t, e, TRUE)
    \/ \E t \in Threads : ThreadContainsTest(t)
    \/ \E t \in Threads : ThreadClear(t, TRUE)

SpecLocked == Init /\ [][NextLocked]_vars

(***************************************************************************)
(* The object _hash_element returns.  It is a generator expression: it     *)
(* keeps a position in range(self.k), each next() moves the position on,   *)
(* and nothing moves it back.  gen is one returned object: pos is its      *)
(* position, pass counts the iterations that ran it to the end, items is   *)
(* what the last iteration yielded and from is where that iteration began. *)
(***************************************************************************)
\* An iteration that begins again at the first index.
RemainingRestart(seq, pos) == seq

\* What iterating the generator to its end yields from position pos.
Remaining(seq, pos) == SubSeq(seq, pos + 1, Len(seq))

\* indices = self._hash_element(e): a new generator at position 0.
GenCreate(e) ==
    /\ status = "live"
    /\ Hashable(e)
    /\ gen' = [elem |-> e, pos |-> 0, from |-> 0, pass |-> 0, items |-> <<>>]
    /\ UNCHANGED <<status, ctor, assigned, n, fp_rate, k, m, memory, hash64,
                   added, op, threads, lock, raced>>

\* next(indices) on a generator that is not at its end: one index.
GenStep ==
    /\ gen.elem # NoElem
    /\ gen.pos < k
    /\ gen' = [gen EXCEPT !.pos = @ + 1, !.from = gen.pos,
                          !.items = <<HashElement(gen.elem)[gen.pos + 1]>>]
    /\ UNCHANGED <<status, ctor, assigned, n, fp_rate, k, m, memory, hash64,
                   added, op, threads, lock, raced>>

\* list(indices): the iteration runs the generator to its end.
GenIterate ==
    /\ gen.elem # NoElem
    /\ gen' = [gen EXCEPT !.pos = k, !.from = gen.pos,
                          !.pass = IF @ < 2 THEN @ + 1 ELSE @,
                          !.items = Remaining(HashElement(gen.elem), gen.pos)]
    /\ UNCHANGED <<status, ctor, assigned, n, fp_rate, k, m, memory, hash64,
                   added, op, threads, lock, raced>>

NextGen ==
    \/ \E nArg \in NArgs, fpArg \in FpArgs : New(nArg, fpArg)
    \/ \E e \in Elements : GenCreate(e)
    \/ GenStep
    \/ GenIterate

SpecGen == Init /\ [][NextGen]_vars

(***************************************************************************)
(* Properties.                                                             *)
(***************************************************************************)
HashableElements == {e \in Elements : Hashable(e)}

\* Every one of the k bits of e is set in mem, each bit tested on its own.
AllBitsSet(mem, e) ==
    \A j \in 1 .. k : TestBit(mem, HashElement(e)[j])

\* The distinct keys added since construction or the last reset.
AddedKeys == {KeyOf(e) : e \in added}

\* C1: no false negatives.  Every element whose add completed since the last
\* reset is reported as contained, whatever else was added and also when
\* more distinct elements than n were added; a contains call on such an
\* element returned True.
NoFalseNegatives ==
    status = "live" =>
        /\ \A e \in added : ContainsResult(memory, e)
        /\ (op.name = "contains" /\ op.arg \in added) => op.ret = "True"

\* A contains call on an added element, after more distinct elements than
\* the capacity n were added.
NoFalseNegativesWitness ==
    /\ status = "live"
    /\ op.name = "contains"
    /\ op.arg \in added
    /\ op.ret = "True"
    /\ Cardinality(AddedKeys) > n

\* C2: right after construction and right after a reset the memory is 0 and
\* no element is reported as contained.
EmptyAfterNewOrClear ==
    (status = "live" /\ op.name \in {"new", "clear"}) =>
        /\ memory = 0
        /\ \A e \in HashableElements : ~ContainsResult(memory, e)

\* The state right after a reset.
EmptyAfterClearWitness ==
    status = "live" /\ op.name = "clear" /\ memory = 0 /\ added = {}

\* C3: contains is true exactly when all k bits of the element are set, and
\* stopping at the first unset bit gives what testing all k bits gives.
ContainsIffAllBits ==
    status = "live" =>
        /\ \A e \in HashableElements :
              ContainsResult(memory, e) = AllBitsSet(memory, e)
        /\ (op.name = "contains" /\ Hashable(op.arg)) =>
              op.ret = BoolStr(AllBitsSet(memory, op.arg))

\* A contains call that returned False although the element's first bit is
\* set: the evaluation stopped at a later index.
ContainsStopsLateWitness ==
    /\ status = "live"
    /\ op.name = "contains"
    /\ op.ret = "False"
    /\ k >= 2
    /\ TestBit(memory, HashElement(op.arg)[1])

\* A positive integer, as the constructor's n has to be.
PositiveInteger(a) == a.type = "int" /\ a.int >= 1

\* A real number strictly between 0 and 1.
InsideUnitInterval(f) ==
    f.type = "float" /\ f.sig > 0 /\ BelowPowerOfTwo(f.sig, -f.exp)

\* C4: construction raises the invalid-parameter error (ValueError) when n
\* is not a positive integer or fp_rate is not strictly between 0 and 1,
\* and succeeds for a positive integer n with fp_rate strictly inside (0,1).
ConstructionFollowsValidation ==
    op.name = "new" =>
        IF PositiveInteger(ctor.n) /\ InsideUnitInterval(ctor.fp)
        THEN status = "live"
        ELSE status = "ValueError"

\* The sequences that list every element of S exactly once.
Orderings(S) ==
    {s \in [1 .. Cardinality(S) -> S] : \A e \in S : \E i \in DOMAIN s : s[i] = e}

\* The memory after add(s[j]), add(s[j+1]), ... from memory mem.
RECURSIVE AddAll(_, _, _)
AddAll(mem, s, j) ==
    IF j \notin DOMAIN s THEN mem ELSE AddAll(AddMemory(mem, s[j]), s, j + 1)

\* C5: order independence.  Adding the elements added so far to a fresh
\* filter in any permutation gives the memory the filter has now, and so the
\* same contains result for every element.
OrderIndependence ==
    status = "live" =>
        \A s \in Orderings(added) :
            /\ AddAll(0, s, 1) = memory
            /\ \A e \in HashableElements :
                  ContainsResult(AddAll(0, s, 1), e) = ContainsResult(memory, e)

\* Two elements with different bit sets were added, in one order or the
\* other, and the memory is more than either one alone.
OrderIndependenceWitness ==
    /\ status = "live"
    /\ op.name = "add"
    /\ \E e1, e2 \in added :
          /\ AddMemory(0, e1) # AddMemory(0, e2)
          /\ memory # AddMemory(0, e1)
          /\ memory # AddMemory(0, e2)

\* C6: idempotence of add.  An add of an element already added since the
\* last reset leaves the memory as it was, the element contained, and the
\* contains result of every other element unchanged.
AddIdempotent ==
    [][(op'.name = "add" /\ op'.again) =>
          /\ memory' = memory
          /\ ContainsResult(memory', op'.arg)
          /\ \A e \in HashableElements :
                ContainsResult(memory', e) = ContainsResult(memory, e)]_vars

\* The state after a repeated add.
AddIdempotentWitness ==
    status = "live" /\ op.name = "add" /\ op.again /\ op.arg \in added

\* C7: membership is monotonic.  On every call but a reset, an element that
\* was reported as contained before the call (added or not) is reported as
\* contained after it.
MembershipMonotonic ==
    [][(status = "live" /\ op'.name # "clear") =>
          \A e \in HashableElements :
              ContainsResult(memory, e) => ContainsResult(memory', e)]_vars

\* A false positive that an add found in place and left in place: an
\* element whose key was never added is reported as contained.
FalsePositiveWitness ==
    /\ status = "live"
    /\ op.name = "add"
    /\ Cardinality(added) >= 2
    /\ \E e \in HashableElements :
          KeyOf(e) \notin AddedKeys /\ ContainsResult(memory, e)

\* C8: contains is read-only.  A contains call, whatever it returns, leaves
\* the memory and the parameters n, fp_rate, k and m unchanged.
ContainsReadOnly ==
    [][(status = "live" /\ op'.name = "contains") =>
          memory' = memory /\ params' = params]_vars

\* A contains call that returned True on a non-empty memory.
ContainsReadOnlyWitness ==
    status = "live" /\ op.name = "contains" /\ op.ret = "True" /\ memory # 0

\* C9: an add of an element that cannot be hashed raises and leaves the
\* memory exactly as it was.
AddUnhashableKeepsMemory ==
    [][(status = "live" /\ op'.name = "add" /\ ~Hashable(op'.arg)) =>
          op'.ret = "TypeError" /\ memory' = memory /\ added' = added]_vars

\* A failed add on a memory that has bits set.
AddUnhashableWitness ==
    /\ status = "live"
    /\ op.name = "add"
    /\ op.ret = "TypeError"
    /\ memory # 0

\* a mod b of number theory: the remainder in 0 .. b-1.
MathMod(a, b) == a - b * (a \div b)

\* C10: index derivation yields exactly k offsets; offset i (counted from 0)
\* is (h1 + i*h2) mod m + i*m and lies in partition i, [i*m, (i+1)*m), for
\* negative hash halves too; the offsets are pairwise distinct and lie in
\* [0, k*m).
IndexDerivation ==
    status = "live" =>
        \A e \in HashableElements :
            LET idx == HashElement(e)
                h == Hash64(KeyOf(e))
            IN  /\ DOMAIN idx = 1 .. k
                /\ \A j \in 1 .. k :
                      /\ idx[j] = MathMod(h[1] + (j - 1) * h[2], m) + (j - 1) * m
                      /\ (j - 1) * m <= idx[j]
                      /\ idx[j] < j * m
                      /\ idx[j] \in 0 .. (k * m - 1)
                /\ \A i, j \in 1 .. k : i # j => idx[i] # idx[j]

\* Both hash halves of an element are negative, h1 + i*h2 is not a multiple
\* of m, and there are several partitions.
NegativeHashWitness ==
    /\ status = "live"
    /\ k >= 2
    /\ m >= 2
    /\ \E e \in HashableElements :
          LET h == Hash64(KeyOf(e))
          IN  /\ h[1] < 0
              /\ h[2] < 0
              /\ MathMod(h[1] + h[2], m) # 0

\* The bit offsets looked at: the k*m bits of the vector and one partition
\* beyond them.
BitOffsets == 0 .. ((k + 1) * m)

\* The offsets among the k indices of element e.
IndexSet(e) == {HashElement(e)[j] : j \in 1 .. k}

\* C12: bits are monotonic.  An add leaves every set bit set and changes
\* bits only at the k offsets of the added element (none when hashing
\* raises); a contains changes no bit; only a reset turns a bit from 1 to 0,
\* and it clears all bits at once.
BitsMonotonic ==
    [][status = "live" =>
          /\ op'.name = "clear" => memory' = 0
          /\ op'.name # "clear" =>
                \A b \in BitOffsets :
                    /\ TestBit(memory, b) => TestBit(memory', b)
                    /\ TestBit(memory', b) # TestBit(memory, b) =>
                          /\ op'.name = "add"
                          /\ Hashable(op'.arg)
                          /\ b \in IndexSet(op'.arg)]_vars

\* An add has just set bits and the memory holds a bit, set earlier, that
\* is none of the added element's.
BitsKeptWitness ==
    /\ status = "live"
    /\ op.name = "add"
    /\ Hashable(op.arg)
    /\ \E b \in BitOffsets : TestBit(memory, b) /\ b \notin IndexSet(op.arg)

\* C13: the memory never has a bit at an offset outside [0, k*m): its value
\* stays below 2^(k*m).
MemoryWithinVector ==
    status = "live" =>
        /\ memory >= 0
        /\ memory < 2 ^ (k * m)
        /\ \A b \in BitOffsets : TestBit(memory, b) => b < k * m

\* The highest bit of the vector is set, after adds of two different keys.
TopBitWitness ==
    /\ status = "live"
    /\ Cardinality(AddedKeys) = 2
    /\ TestBit(memory, k * m - 1)

\* C14: for every pair of parameters that validation accepts, sizing yields
\* k = ceil(log2(1 / fp_rate)) >= 1 (the least k with fp_rate * 2^k >= 1) and
\* m >= 1.
SizesDefinedForValidArgs ==
    (status # "none" /\ CheckArgs(ctor.n, ctor.fp) = "ok") =>
        /\ status = "live"
        /\ {"k", "m"} \subseteq assigned
        /\ k >= 1
        /\ m >= 1
        /\ ~BelowPowerOfTwo(fp_rate.sig, -fp_rate.exp - k)
        /\ BelowPowerOfTwo(fp_rate.sig, -fp_rate.exp - k + 1)

\* C15: validation comes first.  When the parameters are invalid the
\* constructor has raised before n, fp_rate, k, m or memory was assigned.
ValidationFirst ==
    status = "ValueError" =>
        /\ assigned = {}
        /\ op.ret = "ValueError"
        /\ <<n, k, m, memory>> = <<0, 0, 0, 0>>

\* The constructor raised for a valid n with an fp_rate that is too large.
ValidationFirstWitness ==
    /\ status = "ValueError"
    /\ PositiveInteger(ctor.n)
    /\ ctor.fp.type = "float"
    /\ ~BelowPowerOfTwo(ctor.fp.sig, -ctor.fp.exp)

\* C16: n, fp_rate, k and m are fixed for the lifetime of the instance:
\* every add, contains and reset leaves them (and the set of attributes)
\* unchanged, and a reset changes nothing of the instance but the memory.
ParametersFixed ==
    [][status = "live" =>
          /\ params' = params
          /\ assigned' = assigned
          /\ status' = "live"]_vars

\* A reset of a filter with several partitions that held bits.
ResetKeepsParametersWitness ==
    /\ status = "live"
    /\ op.name = "clear"
    /\ k >= 2
    /\ n >= 2

\* C17: index derivation depends only on what the element is converted to.
\* The int 5 and the str "0b101" have the same index sequence, so each is
\* contained once the other was added; and an element's sequence never
\* changes.
IndexByConversion ==
    [][status' = "live" =>
          /\ \A j \in 1 .. k' :
                HashElement(IntElem(5))'[j] = HashElement(StrElem("0b101"))'[j]
          /\ (added' \cap {IntElem(5), StrElem("0b101")} # {}) =>
                /\ ContainsResult(memory', IntElem(5))
                /\ ContainsResult(memory', StrElem("0b101"))
          /\ status = "live" =>
                \A e \in HashableElements : \A j \in 1 .. k :
                    HashElement(e)'[j] = HashElement(e)[j]]_vars

\* A contains of the int 5 returned True when only the str "0b101" was added.
IndexByConversionWitness ==
    /\ status = "live"
    /\ added = {StrElem("0b101")}
    /\ op = Call("contains", IntElem(5), "True", FALSE)

\* C18: add is not atomic.  With no lock, an element that add returned for
\* can be missing from the memory, and this happens only after a thread
\* stored a value or-ed from a memory that another thread had changed since
\* the load (the lost update).
LostOnlyByStaleStore ==
    ~raced => \A e \in added : ContainsResult(memory, e)

\* Both adds have returned, a store was stale, and the element of one add is
\* reported as not contained.
LostBitWitness ==
    /\ AllIdle
    /\ raced
    /\ added = ThreadElements
    /\ op.name = "contains"
    /\ op.arg \in added
    /\ op.ret = "False"

\* C19: when every add and _clear is serialized by the callers' lock against
\* each other and against every __contains__, no store is stale, every
\* element added since the last reset has all its bits, and a __contains__
\* that began after add returned for its element returns True.
LockedNoFalseNegatives ==
    /\ ~raced
    /\ \A e \in added : ContainsResult(memory, e)
    /\ (op.name = "contains" /\ op.again) => op.ret = "True"
    /\ \A t \in Threads :
          /\ threads[t].pc \in {"load", "store"} => lock = t
          /\ threads[t].pc = "test" => lock = "free"

\* A __contains__ returned True for an element added before it, with both
\* elements added and the other thread in a __contains__ of its own.
LockedContainsWitness ==
    /\ op.name = "contains"
    /\ op.again
    /\ op.ret = "True"
    /\ added = ThreadElements
    /\ k >= 2
    /\ \E t \in Threads : threads[t].pc = "test" /\ threads[t].j = k

\* C20 as stated: a second iteration of the same returned sequence, after it
\* was consumed, yields the k offsets again.
SequenceRestartable ==
    gen.pass >= 2 => gen.items = HashElement(gen.elem)

\* C20: the returned sequence is single-use.  An iteration yields the
\* offsets from the position the sequence stands at, so the first full
\* iteration of a new sequence yields the k offsets and an iteration after
\* the sequence was consumed yields nothing.
SequenceSingleUse ==
    gen.pass >= 1 =>
        /\ gen.pos = k
        /\ gen.items = SubSeq(HashElement(gen.elem), gen.from + 1, k)
        /\ gen.from = 0 => (gen.items = HashElement(gen.elem) /\ Len(gen.items) = k)
        /\ gen.pass >= 2 => (gen.from = k /\ gen.items = <<>>)

\* A sequence of several offsets was iterated a second time.
SecondIterationWitness ==
    /\ gen.pass >= 2
    /\ k >= 2
    /\ gen.items = <<>>
    /\ Len(HashElement(gen.elem)) = k

====
